---- MODULE Spec2Model ----
(***************************************************************************)
(* Model of backend/scripts/ingestPDFs.py: the live / dry-run ingestion    *)
(* of certification PDFs into the KnowledgeChunk table (main,              *)
(* ingest_source, embed_batch, the db_* helpers) and the pure functions    *)
(* clean_text and split_into_chunks.                                       *)
(*                                                                         *)
(* Five specifications:                                                    *)
(*   Spec      - repeated invocations of main() against one store; the     *)
(*               embedding service and SQLite are the environment and may  *)
(*               fail or answer with any response.                         *)
(*   SpecChunk - split_into_chunks applied to every bounded input text.    *)
(*   SpecEmbed - embed_batch applied to every bounded response.            *)
(*   SpecClean - clean_text applied to every bounded raw text.             *)
(*   SpecLive  - one invocation of main() under weak fairness of its       *)
(*               steps, for termination.                                   *)
(*                                                                         *)
(* Chunk contents are abstracted in Spec to their position in the          *)
(* document (1..n); the vector the service computes for a chunk is         *)
(* identified with the chunk it was computed from, so a row is correctly   *)
(* paired exactly when row.embedding = row.content.                        *)
(***************************************************************************)
EXTENDS Integers, Sequences, FiniteSets, TLC

\* ---------------------------------------------------------------- bounds
MaxChunks   == 3   \* chunks the documents yield, all sources together
MaxExisting == 2   \* rows in the store before the first run
MaxRuns     == 2   \* invocations of main()
MaxFaults   == 1   \* failures / malformed responses the environment injects
MaxLen      == 10  \* length of the texts given to split_into_chunks
MaxBatch    == 4   \* size of the batches embed_batch answers in SpecEmbed
MaxRaw      == 5   \* length of the raw texts given to clean_text

\* ------------------------------------------------------ program constants
\* Sizes are scaled down (source: 2400 / 320 / 200 / 20), keeping
\* MIN_CHUNK_CHARS < CHUNK_OVERLAP_CHARS < CHUNK_TARGET_CHARS.
CHUNK_TARGET_CHARS  == 6
CHUNK_OVERLAP_CHARS == 5
MIN_CHUNK_CHARS     == 4
EMBED_BATCH_SIZE    == 2
\* An all-caps line is dropped when it is shorter than CAPS_LINE_CHARS and
\* has at most CAPS_LINE_WORDS words (source: 60 and 6).
CAPS_LINE_CHARS     == 4
CAPS_LINE_WORDS     == 2

\* The first two of the four configured sources.
PDF_SOURCES == <<"NASM", "ACE">>

SourceNames == {PDF_SOURCES[i] : i \in 1..Len(PDF_SOURCES)}
NoSource    == "None"
Selectors   == SourceNames \cup {NoSource, "XYZ"}

Min(a, b) == IF a <= b THEN a ELSE b

VARIABLES
  db,          \* KnowledgeChunk: the committed rows, in insertion order
  nchunks,     \* per source: len(split_into_chunks(clean_text(raw))) of its PDF
  clock,       \* datetime('now'), one tick per invocation of main
  pc,          \* "idle" | "main_loop" | "batch" | "persist"
  dry_run,     \* args.dry_run
  todo,        \* the sources main's for loop has still to visit
  cur,         \* source
  existing,    \* db_count(conn, source) before the delete
  total,       \* len(chunks)
  batch_idx,   \* loop variable of the batch loop
  data,        \* data["data"]: the embedding service's response
  embeddings,  \* result of embed_batch
  stored,
  skipped,
  pending,     \* rows inserted on conn but not committed
  out,         \* per batch of the current source: the line printed for it
  env,         \* what the environment did wrong during the current source
  nfaults,     \* faults injected so far
  touched,     \* collaborators used by the current invocation of main
  summary,     \* per source: the outcome printed for it in this invocation
  report,      \* what the last invocation of main printed: summary, tally
  text,        \* SpecChunk, SpecClean: the input of the function
  result,      \* SpecChunk, SpecClean: its output
  phase        \* SpecChunk: "off" | "ready" | "done";
               \* SpecEmbed: "request" | "response" | "embedded";
               \* SpecClean: "raw" | "cleaned"

ivars == <<db, nchunks, clock, pc, dry_run, todo, cur, existing, total, batch_idx, data,
           embeddings, stored, skipped, pending, out, env, nfaults, touched,
           summary, report>>
cvars == <<text, result, phase>>
vars  == <<db, nchunks, clock, pc, dry_run, todo, cur, existing, total, batch_idx, data,
           embeddings, stored, skipped, pending, out, env, nfaults, touched,
           summary, report, text, result, phase>>

\* ------------------------------------------------------------- db helpers
Row(source, content, embedding, createdAt) ==
  [source |-> source, content |-> content, embedding |-> embedding,
   createdAt |-> createdAt]

\* variant: the DELETE removes nothing
db_delete_source_noop(table, source) == table

\* variant: the WHERE clause is inverted
db_delete_source_others(table, source) ==
  SelectSeq(table, LAMBDA r : r.source = source)

\* variant: the DELETE has no WHERE clause
db_delete_source_all(table, source) == <<>>

\* DELETE FROM KnowledgeChunk WHERE source = ?
db_delete_source(table, source) ==
  SelectSeq(table, LAMBDA r : r.source # source)

\* SELECT COUNT(*) FROM KnowledgeChunk WHERE source = ?
db_count(table, source) ==
  Len(SelectSeq(table, LAMBDA r : r.source = source))

\* INSERT INTO KnowledgeChunk (..., source, content, embedding, createdAt)
db_insert_chunk(conn, source, content, embedding) ==
  Append(conn, Row(source, content, embedding, clock))

\* SELECT source, COUNT(*) FROM KnowledgeChunk GROUP BY source
group_count(table) ==
  {<<s, db_count(table, s)>> : s \in {table[i].source : i \in 1..Len(table)}}

\* ------------------------------------------------------------ embed_batch
\* sorted(seq, key=lambda x: x["index"]): stable insertion sort
RECURSIVE insort(_, _)
insort(seq, x) ==
  IF seq = <<>> THEN <<x>>
  ELSE IF Head(seq).index <= x.index THEN <<Head(seq)>> \o insort(Tail(seq), x)
  ELSE <<x>> \o seq

RECURSIVE sorted(_)
sorted(seq) ==
  IF seq = <<>> THEN <<>>
  ELSE insort(sorted(SubSeq(seq, 1, Len(seq) - 1)), seq[Len(seq)])

\* variant: the response is used in the order it arrived
embed_batch_unsorted(response) ==
  [i \in 1..Len(response) |-> response[i].embedding]

\* [item["embedding"] for item in sorted(data["data"], key=index)]
embed_batch(response) ==
  [i \in 1..Len(response) |-> sorted(response)[i].embedding]

\* variant: the slice ends one chunk early
batch_of_short(n, idx) ==
  [i \in 1..(Min(idx + EMBED_BATCH_SIZE - 1, n) - idx) |-> idx + i]

\* chunks[batch_idx : batch_idx + EMBED_BATCH_SIZE]; chunks are 1..n
batch_of(n, idx) ==
  [i \in 1..(Min(idx + EMBED_BATCH_SIZE, n) - idx) |-> idx + i]

\* zip(batch, embeddings)
zip(batch, embs) ==
  [i \in 1..Min(Len(batch), Len(embs)) |-> <<batch[i], embs[i]>>]

\* variant: skipped += 1
skip_batch_one(n, batch) == n + 1

\* skipped += len(batch)
skip_batch(n, batch) == n + Len(batch)

\* What the embedding service may answer for a batch: any sequence of at
\* most len(batch) items, each the vector of one of the inputs tagged with
\* that input's request index (0-based).
Item(batch, i) == [index |-> i, embedding |-> batch[i + 1]]
Responses(batch) ==
  UNION {[1..l -> {Item(batch, i) : i \in 0..(Len(batch) - 1)}] :
           l \in 0..Len(batch)}

\* one item per request index 0..k-1, in any order
WellFormed(response, k) ==
  /\ Len(response) = k
  /\ \A i \in 0..(k - 1) : \E p \in 1..k : response[p].index = i

\* ------------------------------------------------------------------- Init
NoSummary == [status |-> "none", stored |-> 0, skipped |-> 0]

OldRows(source, n) == [i \in 1..n |-> Row(source, i, i, 0)]

InitProgram ==
  /\ clock = 0
  /\ pc = "idle"
  /\ dry_run = FALSE
  /\ todo = <<>>
  /\ cur = NoSource
  /\ existing = 0
  /\ total = 0
  /\ batch_idx = 0
  /\ data = <<>>
  /\ embeddings = <<>>
  /\ stored = 0
  /\ skipped = 0
  /\ pending = <<>>
  /\ out = <<>>
  /\ env = {}
  /\ nfaults = 0
  /\ touched = {}
  /\ summary = [s \in SourceNames |-> NoSummary]
  /\ report = [status |-> "none", dry |-> FALSE,
               summary |-> [s \in SourceNames |-> NoSummary], tally |-> {}]

\* f summed over the first k sources
RECURSIVE SumOver(_, _)
SumOver(f, k) == IF k = 0 THEN 0 ELSE f[PDF_SOURCES[k]] + SumOver(f, k - 1)

\* the rows of the first k sources, e[s] rows for source s
RECURSIVE InitialRows(_, _)
InitialRows(e, k) ==
  IF k = 0 THEN <<>>
  ELSE InitialRows(e, k - 1) \o OldRows(PDF_SOURCES[k], e[PDF_SOURCES[k]])

\* The documents yield at most MaxChunks chunks together and the table
\* holds at most MaxExisting rows of earlier ingestions.
Init ==
  /\ InitProgram
  /\ nchunks \in {f \in [SourceNames -> 0..MaxChunks] :
                    SumOver(f, Len(PDF_SOURCES)) <= MaxChunks}
  /\ \E e \in {f \in [SourceNames -> 0..MaxExisting] :
                   SumOver(f, Len(PDF_SOURCES)) <= MaxExisting} :
       db = InitialRows(e, Len(PDF_SOURCES))
  /\ text = <<>>
  /\ result = <<>>
  /\ phase = "off"

\* ------------------------------------------------------------------- main
Report(status) ==
  [status |-> status, dry |-> dry_run, summary |-> summary, tally |-> {}]

\* the process ends: its variables are gone, the store and what was
\* printed last remain
exit_process ==
  /\ pc' = "idle"
  /\ dry_run' = FALSE
  /\ todo' = <<>>
  /\ cur' = NoSource
  /\ existing' = 0
  /\ total' = 0
  /\ batch_idx' = 0
  /\ data' = <<>>
  /\ embeddings' = <<>>
  /\ stored' = 0
  /\ skipped' = 0
  /\ pending' = <<>>
  /\ out' = <<>>
  /\ env' = {}
  /\ summary' = [s \in SourceNames |-> NoSummary]

\* lines 293-310: parse the arguments, select the sources, load the key
main_start ==
  /\ pc = "idle"
  /\ clock < MaxRuns
  /\ \E sel \in Selectors, dry \in BOOLEAN, key_ok \in BOOLEAN :
       LET sources == IF sel = NoSource THEN PDF_SOURCES
                      ELSE SelectSeq(PDF_SOURCES, LAMBDA s : s = sel)
           fresh == [s \in SourceNames |-> NoSummary]
       IN IF sources = <<>>
          THEN \* sys.exit(1)
               /\ report' = [status |-> "unknown_source", dry |-> dry,
                             summary |-> fresh, tally |-> {}]
               /\ summary' = fresh
               /\ touched' = {}
               /\ UNCHANGED <<db, nchunks, pc, dry_run, todo, cur, existing, total,
                              batch_idx, data, embeddings, stored, skipped,
                              pending, out, env, nfaults>>
          ELSE IF ~dry /\ ~key_ok
          THEN \* load_api_key raises
               /\ report' = [status |-> "no_api_key", dry |-> dry,
                             summary |-> fresh, tally |-> {}]
               /\ summary' = fresh
               /\ touched' = {}
               /\ UNCHANGED <<db, nchunks, pc, dry_run, todo, cur, existing, total,
                              batch_idx, data, embeddings, stored, skipped,
                              pending, out, env, nfaults>>
          ELSE /\ pc' = "main_loop"
               /\ dry_run' = dry
               /\ todo' = sources
               /\ summary' = fresh
               /\ touched' = {}
               /\ UNCHANGED <<db, nchunks, cur, existing, total, batch_idx, data,
                              embeddings, stored, skipped, pending, out, env,
                              nfaults, report>>
  /\ clock' = clock + 1
  /\ UNCHANGED cvars


\* ---------------------------------------------------------- ingest_source
\* variant: a missing PDF ends the loop over the sources
ingest_missing_abort(s) ==
  /\ summary' = [summary EXCEPT ![s] = [NoSummary EXCEPT !.status = "missing"]]
  /\ todo' = <<>>
  /\ UNCHANGED <<db, nchunks, clock, pc, dry_run, cur, existing, total, batch_idx, data,
                 embeddings, stored, skipped, pending, out, env, nfaults,
                 touched, report>>

\* lines 221-223: the PDF is not there
ingest_missing(s) ==
  /\ summary' = [summary EXCEPT ![s] = [NoSummary EXCEPT !.status = "missing"]]
  /\ todo' = Tail(todo)
  /\ UNCHANGED <<db, nchunks, clock, pc, dry_run, cur, existing, total, batch_idx, data,
                 embeddings, stored, skipped, pending, out, env, nfaults,
                 touched, report>>

\* variant: the source's rows are deleted before the dry-run check
ingest_preview_delete(s) ==
  /\ db' = db_delete_source(db, s)
  /\ touched' = touched \cup {"store"}
  /\ summary' = [summary EXCEPT ![s] = [NoSummary EXCEPT !.status = "preview"]]
  /\ todo' = Tail(todo)
  /\ UNCHANGED <<nchunks, clock, pc, dry_run, cur, existing, total, batch_idx,
                 data, embeddings, stored, skipped, pending, out, env, nfaults,
                 report>>

\* lines 244-251: print the first chunks and return
ingest_preview(s) ==
  /\ summary' = [summary EXCEPT ![s] = [NoSummary EXCEPT !.status = "preview"]]
  /\ todo' = Tail(todo)
  /\ UNCHANGED <<db, nchunks, clock, pc, dry_run, cur, existing, total, batch_idx, data,
                 embeddings, stored, skipped, pending, out, env, nfaults,
                 touched, report>>

\* lines 254-263: connect, delete the source's rows, reset the counters.
\* An exception of db_connect / db_count / db_delete_source is not caught
\* anywhere: it ends the process, and the uncommitted DELETE is lost.
ingest_store(s, store_ok) ==
  IF store_ok
  THEN /\ db' = IF db_count(db, s) > 0 THEN db_delete_source(db, s) ELSE db
       /\ pending' = <<>>
       /\ cur' = s
       /\ existing' = db_count(db, s)
       /\ total' = nchunks[s]
       /\ batch_idx' = 0
       /\ stored' = 0
       /\ skipped' = 0
       /\ out' = <<>>
       /\ env' = {}
       /\ touched' = touched \cup {"store"}
       /\ pc' = "batch"
       /\ UNCHANGED <<nchunks, clock, dry_run, todo, data, embeddings, nfaults,
                      summary, report>>
  ELSE /\ nfaults < MaxFaults
       /\ nfaults' = nfaults + 1
       /\ touched' = touched \cup {"store"}
       /\ report' = Report("crashed")
       /\ exit_process
       /\ UNCHANGED <<db, nchunks, clock>>

\* lines 212-263: one iteration of main's loop enters ingest_source
ingest_source_open ==
  /\ pc = "main_loop"
  /\ todo # <<>>
  /\ \E file_ok \in BOOLEAN, store_ok \in BOOLEAN :
       IF ~file_ok THEN ingest_missing(Head(todo))
       ELSE IF dry_run THEN ingest_preview(Head(todo))
       ELSE ingest_store(Head(todo), store_ok)
  /\ UNCHANGED cvars

\* variant: an exception of the embedding call is not caught and ends the
\* process
ingest_source_embed_uncaught ==
  /\ pc = "batch"
  /\ batch_idx < total
  /\ LET batch == batch_of(total, batch_idx) IN
     /\ touched' = touched \cup {"embed"}
     /\ \/ /\ nfaults < MaxFaults
           /\ nfaults' = nfaults + 1
           /\ report' = Report("crashed")
           /\ exit_process
           /\ UNCHANGED <<db, nchunks, clock>>
        \/ \E r \in Responses(batch) :
             /\ data' = r
             /\ embeddings' = embed_batch(r)
             /\ pc' = "persist"
             /\ IF WellFormed(r, Len(batch))
                THEN UNCHANGED <<nfaults, env>>
                ELSE /\ nfaults < MaxFaults
                     /\ nfaults' = nfaults + 1
                     /\ env' = env \cup {"malformed"}
             /\ UNCHANGED <<db, nchunks, clock, dry_run, todo, cur, existing,
                            total, stored, pending, summary, report, skipped,
                            out, batch_idx>>
  /\ UNCHANGED cvars

\* variant: a batch whose embedding call raised is sent again
ingest_source_embed_retry ==
  /\ pc = "batch"
  /\ batch_idx < total
  /\ LET batch == batch_of(total, batch_idx) IN
     /\ touched' = touched \cup {"embed"}
     /\ \/ /\ nfaults < MaxFaults
           /\ nfaults' = nfaults + 1
           /\ env' = env \cup {"embed_error"}
           /\ skipped' = skip_batch(skipped, batch)
           /\ out' = Append(out, "embed_error")
           /\ UNCHANGED <<pc, data, embeddings, batch_idx>>
        \/ \E r \in Responses(batch) :
             /\ data' = r
             /\ embeddings' = embed_batch(r)
             /\ pc' = "persist"
             /\ IF WellFormed(r, Len(batch))
                THEN UNCHANGED <<nfaults, env>>
                ELSE /\ nfaults < MaxFaults
                     /\ nfaults' = nfaults + 1
                     /\ env' = env \cup {"malformed"}
             /\ UNCHANGED <<skipped, out, batch_idx>>
  /\ UNCHANGED <<db, nchunks, clock, dry_run, todo, cur, existing, total, stored, pending,
                 summary, report>>
  /\ UNCHANGED cvars

\* lines 265-271 and 279-281: the next batch is sent to the embedding service
ingest_source_embed ==
  /\ pc = "batch"
  /\ batch_idx < total
  /\ LET batch == batch_of(total, batch_idx) IN
     /\ touched' = touched \cup {"embed"}
     /\ \/ \* the call raises: HTTP error, timeout, unparsable body
           /\ nfaults < MaxFaults
           /\ nfaults' = nfaults + 1
           /\ env' = env \cup {"embed_error"}
           /\ skipped' = skip_batch(skipped, batch)
           /\ out' = Append(out, "embed_error")
           /\ batch_idx' = batch_idx + EMBED_BATCH_SIZE
           /\ UNCHANGED <<pc, data, embeddings>>
        \/ \E r \in Responses(batch) :
             /\ data' = r
             /\ embeddings' = embed_batch(r)
             /\ pc' = "persist"
             /\ IF WellFormed(r, Len(batch))
                THEN UNCHANGED <<nfaults, env>>
                ELSE /\ nfaults < MaxFaults
                     /\ nfaults' = nfaults + 1
                     /\ env' = env \cup {"malformed"}
             /\ UNCHANGED <<skipped, out, batch_idx>>
  /\ UNCHANGED <<db, nchunks, clock, dry_run, todo, cur, existing, total, stored, pending,
                 summary, report>>
  /\ UNCHANGED cvars

\* the rows the first f pairs of the batch add to the connection
RECURSIVE insert_pairs(_, _, _)
insert_pairs(conn, pairs, f) ==
  IF f = 0 THEN conn
  ELSE db_insert_chunk(insert_pairs(conn, pairs, f - 1), cur,
                       pairs[f][1], pairs[f][2])

\* lines 272-281: insert every pair, commit; any exception skips the batch.
\* f inserts succeed.  A failing statement or commit either leaves the
\* transaction open (SQLITE_BUSY, constraint) or makes SQLite roll the
\* whole transaction back (SQLITE_FULL, SQLITE_IOERR): keep.
ingest_source_persist ==
  /\ pc = "persist"
  /\ LET batch == batch_of(total, batch_idx)
         pairs == zip(batch, embeddings)
     IN \E f \in 0..Len(pairs), commit_ok \in BOOLEAN, keep \in BOOLEAN :
          LET conn == insert_pairs(pending, pairs, f) IN
          /\ stored' = stored + f
          /\ IF f = Len(pairs) /\ commit_ok
             THEN /\ db' = db \o conn
                  /\ pending' = <<>>
                  /\ out' = Append(out, "ok")
                  /\ UNCHANGED <<skipped, env, nfaults>>
             ELSE /\ nfaults < MaxFaults
                  /\ nfaults' = nfaults + 1
                  /\ env' = env \cup {IF f < Len(pairs) THEN "insert_error"
                                      ELSE "commit_error"}
                  /\ pending' = IF keep THEN conn ELSE <<>>
                  /\ skipped' = skip_batch(skipped, batch)
                  /\ out' = Append(out, "store_error")
                  /\ UNCHANGED db
  /\ batch_idx' = batch_idx + EMBED_BATCH_SIZE
  /\ pc' = "batch"
  /\ UNCHANGED <<nchunks, clock, dry_run, todo, cur, existing, total, data, embeddings,
                 touched, summary, report>>
  /\ UNCHANGED cvars

\* lines 287-288: close the connection (uncommitted rows are lost), report
ingest_source_close ==
  /\ pc = "batch"
  /\ batch_idx >= total
  /\ pending' = <<>>
  /\ data' = <<>>
  /\ embeddings' = <<>>
  /\ summary' = [summary EXCEPT ![cur] =
                   [status |-> "done", stored |-> stored, skipped |-> skipped]]
  /\ todo' = Tail(todo)
  /\ pc' = "main_loop"
  /\ UNCHANGED <<db, nchunks, clock, dry_run, cur, existing, total, batch_idx, stored,
                 skipped, out, env, nfaults, touched, report>>
  /\ UNCHANGED cvars

\* lines 316-330: after the loop, the final tally of a live run
main_finish ==
  /\ pc = "main_loop"
  /\ todo = <<>>
  /\ report' = [status |-> "finished", dry |-> dry_run, summary |-> summary,
                tally |-> IF dry_run THEN {} ELSE group_count(db)]
  /\ touched' = IF dry_run THEN touched ELSE touched \cup {"store"}
  /\ exit_process
  /\ UNCHANGED <<db, nchunks, clock, nfaults>>
  /\ UNCHANGED cvars

Next ==
  \/ main_start
  \/ ingest_source_open
  \/ ingest_source_embed
  \/ ingest_source_persist
  \/ ingest_source_close
  \/ main_finish

Spec == Init /\ [][Next]_vars

\* One invocation of main(), whose steps are taken as long as one is
\* possible: the script is a single thread that runs until it returns.
main_once == clock = 0 /\ main_start

NextLive ==
  \/ main_once
  \/ ingest_source_open
  \/ ingest_source_embed
  \/ ingest_source_persist
  \/ ingest_source_close
  \/ main_finish

SpecLive ==
  /\ Init
  /\ [][NextLive]_vars
  /\ WF_vars(ingest_source_open)
  /\ WF_vars(ingest_source_embed)
  /\ WF_vars(ingest_source_persist)
  /\ WF_vars(ingest_source_close)
  /\ WF_vars(main_finish)

\* ------------------------------------------------------ split_into_chunks
\* Texts are sequences of characters.
SP == " "
NL == "\n"
TAB == "\t"
CR == "\r"
FF == "\f"
Chars == {"a", SP, NL}
\* what str.strip() removes and \s matches
Whitespace == {SP, TAB, NL, CR, FF}

RECURSIVE lstrip(_)
lstrip(str) ==
  IF str # <<>> /\ Head(str) \in Whitespace THEN lstrip(Tail(str)) ELSE str

RECURSIVE rstrip(_)
rstrip(str) ==
  IF str # <<>> /\ str[Len(str)] \in Whitespace
  THEN rstrip(SubSeq(str, 1, Len(str) - 1)) ELSE str

\* str.strip()
strip(str) == lstrip(rstrip(str))

\* the first position after i that does not hold a newline
RECURSIVE skip_newlines(_, _)
skip_newlines(str, i) ==
  IF i <= Len(str) /\ str[i] = NL THEN skip_newlines(str, i + 1) ELSE i

\* re.split(r"\n\n+", text), scanning from position i with the piece part
RECURSIVE re_split(_, _, _)
re_split(str, i, part) ==
  IF i > Len(str) THEN <<part>>
  ELSE IF str[i] = NL /\ i < Len(str) /\ str[i + 1] = NL
       THEN <<part>> \o re_split(str, skip_newlines(str, i), <<>>)
  ELSE re_split(str, i + 1, Append(part, str[i]))

\* str.find(" "): 0-based position of the first space, -1 if there is none
RECURSIVE find_space(_, _)
find_space(str, i) ==
  IF i > Len(str) THEN -1
  ELSE IF str[i] = SP THEN i - 1
  ELSE find_space(str, i + 1)

\* variant: the slice is one character too long
last_chars_more(str, n) ==
  IF Len(str) <= n + 1 THEN str ELSE SubSeq(str, Len(str) - n, Len(str))

\* str[-n:]
last_chars(str, n) ==
  IF Len(str) <= n THEN str ELSE SubSeq(str, Len(str) - n + 1, Len(str))

\* variant: the raw tail is carried over, without the cut
overlap_of_raw(current) == last_chars(current, CHUNK_OVERLAP_CHARS)

\* lines 132-134: the tail of the closed chunk, cut after its first space
overlap_of(current) ==
  LET tail == last_chars(current, CHUNK_OVERLAP_CHARS)
      idx  == find_space(tail, 1)
  IN IF idx >= 0 THEN SubSeq(tail, idx + 2, Len(tail)) ELSE tail

\* lines 124-137: the loop over the paragraphs from the i-th on; st is
\* the pair of chunks and current
RECURSIVE chunk_loop(_, _, _)
chunk_loop(paragraphs, i, st) ==
  IF i > Len(paragraphs) THEN st
  ELSE LET para      == strip(paragraphs[i])
           current   == st.current
           candidate == IF current # <<>>
                        THEN strip(current \o <<NL, NL>> \o para)
                        ELSE para
       IN IF para = <<>> THEN chunk_loop(paragraphs, i + 1, st)
          ELSE IF Len(candidate) > CHUNK_TARGET_CHARS /\ current # <<>>
          THEN chunk_loop(paragraphs, i + 1,
                 [chunks  |-> Append(st.chunks, strip(current)),
                  current |-> strip(overlap_of(current) \o <<NL, NL>> \o para)])
          ELSE chunk_loop(paragraphs, i + 1,
                 [chunks |-> st.chunks, current |-> candidate])

\* lines 119-140: the chunks before the final filter
collect_chunks(str) ==
  LET st == chunk_loop(re_split(str, 1, <<>>), 1,
                       [chunks |-> <<>>, current |-> <<>>])
  IN IF strip(st.current) # <<>> /\ Len(strip(st.current)) >= MIN_CHUNK_CHARS
     THEN Append(st.chunks, strip(st.current))
     ELSE st.chunks

\* variant: the list is returned without the final filter
split_into_chunks_unfiltered(str) == collect_chunks(str)

\* lines 117-142
split_into_chunks(str) ==
  SelectSeq(collect_chunks(str), LAMBDA c : Len(c) >= MIN_CHUNK_CHARS)

Texts == UNION {[1..l -> Chars] : l \in 0..MaxLen}

InitChunk ==
  /\ InitProgram
  /\ nchunks = [s \in SourceNames |-> 0]
  /\ db = <<>>
  /\ text \in Texts
  /\ result = <<>>
  /\ phase = "ready"

\* chunks = split_into_chunks(cleaned)
chunk_apply ==
  /\ phase = "ready"
  /\ result' = split_into_chunks(text)
  /\ phase' = "done"
  /\ UNCHANGED text
  /\ UNCHANGED ivars

NextChunk == chunk_apply

SpecChunk == InitChunk /\ [][NextChunk]_vars

\* -------------------------------------------------- embed_batch on its own
InitEmbed ==
  /\ InitProgram
  /\ nchunks = [s \in SourceNames |-> 0]
  /\ db = <<>>
  /\ text = <<>>
  /\ result = <<>>
  /\ phase = "request"

\* the batch of a request of k chunks
request_of(k) == [i \in 1..k |-> i]

\* lines 151-167: a batch of k chunks is posted and a response arrives
embed_request ==
  /\ phase = "request"
  /\ \E k \in 1..MaxBatch :
       /\ total' = k
       /\ data' \in Responses(request_of(k))
  /\ phase' = "response"
  /\ UNCHANGED <<db, nchunks, clock, pc, dry_run, todo, cur, existing,
                 batch_idx, embeddings, stored, skipped, pending, out, env,
                 nfaults, touched, summary, report, text, result>>

\* line 173: the vectors are returned sorted by index
embed_return ==
  /\ phase = "response"
  /\ embeddings' = embed_batch(data)
  /\ phase' = "embedded"
  /\ UNCHANGED <<db, nchunks, clock, pc, dry_run, todo, cur, existing, total,
                 batch_idx, data, stored, skipped, pending, out, env, nfaults,
                 touched, summary, report, text, result>>

NextEmbed == embed_request \/ embed_return

SpecEmbed == InitEmbed /\ [][NextEmbed]_vars

\* ------------------------------------------------------------ clean_text
\* One character of each class the expressions of clean_text tell apart.
RawChars == {"a", "A", "1", "-", SP, TAB, NL, CR, FF}
Word == {"a", "A", "1"}     \* \w
Digit == {"1"}              \* \d

\* text.replace("\r\n", "\n")
RECURSIVE replace_crlf(_)
replace_crlf(str) ==
  IF str = <<>> THEN <<>>
  ELSE IF Len(str) >= 2 /\ str[1] = CR /\ str[2] = NL
       THEN <<NL>> \o replace_crlf(SubSeq(str, 3, Len(str)))
  ELSE <<Head(str)>> \o replace_crlf(Tail(str))

\* text.replace(old, new) for a single character old
RECURSIVE replace_char(_, _, _)
replace_char(str, old, new) ==
  IF str = <<>> THEN <<>>
  ELSE (IF Head(str) = old THEN new ELSE <<Head(str)>>)
         \o replace_char(Tail(str), old, new)

\* re.sub(r"(\w)-\n(\w)", r"\1\2", text): matches do not overlap
RECURSIVE join_hyphenated(_)
join_hyphenated(str) ==
  IF str = <<>> THEN <<>>
  ELSE IF /\ Len(str) >= 4
          /\ str[1] \in Word /\ str[2] = "-" /\ str[3] = NL /\ str[4] \in Word
       THEN <<str[1], str[4]>> \o join_hyphenated(SubSeq(str, 5, Len(str)))
  ELSE <<Head(str)>> \o join_hyphenated(Tail(str))

\* the length of the longest run of characters of set that starts at i
RECURSIVE run_length(_, _, _)
run_length(str, i, set) ==
  IF i <= Len(str) /\ str[i] \in set THEN 1 + run_length(str, i + 1, set)
  ELSE 0

\* $ with re.MULTILINE holds before position i: the end, or a newline
AtLineEnd(str, i) == i > Len(str) \/ str[i] = NL

\* ^ with re.MULTILINE holds at position i: the start, or after a newline
AtLineStart(str, i) == i = 1 \/ str[i - 1] = NL

\* The position after the match of ^\s*\d{1,4}\s*$ that starts at i, or 0.
\* The leading \s* takes the whole run of white space, \d{1,4} the whole
\* run of digits (a fifth digit, or a shorter take, leaves a digit where
\* \s*$ must match), and the trailing \s* gives back characters until $
\* holds.
page_number_end(str, i) ==
  LET ws  == run_length(str, i, Whitespace)
      d   == run_length(str, i + ws, Digit)
      j   == i + ws + d
      ts  == run_length(str, j, Whitespace)
      fit == {t \in 0..ts : AtLineEnd(str, j + t)}
  IN IF AtLineStart(str, i) /\ d \in 1..4 /\ fit # {}
     THEN j + (CHOOSE t \in fit : \A u \in fit : u <= t)
     ELSE 0

\* re.sub(r"^\s*\d{1,4}\s*$", "", text, flags=re.MULTILINE), from position i
RECURSIVE remove_page_numbers(_, _)
remove_page_numbers(str, i) ==
  IF i > Len(str) THEN <<>>
  ELSE IF page_number_end(str, i) # 0
       THEN remove_page_numbers(str, page_number_end(str, i))
  ELSE <<str[i]>> \o remove_page_numbers(str, i + 1)

\* re.sub(r"\n{3,}", "\n\n", text), from position i
RECURSIVE collapse_newlines(_, _)
collapse_newlines(str, i) ==
  IF i > Len(str) THEN <<>>
  ELSE IF run_length(str, i, {NL}) >= 3
       THEN <<NL, NL>> \o collapse_newlines(str, i + run_length(str, i, {NL}))
  ELSE <<str[i]>> \o collapse_newlines(str, i + 1)

\* text.split("\n"), scanning from position i with the line begun
RECURSIVE split_lines(_, _, _)
split_lines(str, i, line) ==
  IF i > Len(str) THEN <<line>>
  ELSE IF str[i] = NL THEN <<line>> \o split_lines(str, i + 1, <<>>)
  ELSE split_lines(str, i + 1, Append(line, str[i]))

\* "\n".join(lines)
RECURSIVE join_lines(_)
join_lines(lines) ==
  IF lines = <<>> THEN <<>>
  ELSE IF Len(lines) = 1 THEN lines[1]
  ELSE lines[1] \o <<NL>> \o join_lines(Tail(lines))

\* len(stripped.split()): the words of str from position i on
RECURSIVE count_words(_, _)
count_words(str, i) ==
  IF i > Len(str) THEN 0
  ELSE IF str[i] \in Whitespace THEN count_words(str, i + 1)
  ELSE 1 + count_words(str, i + run_length(str, i, RawChars \ Whitespace))

\* str.isupper(): a cased character, and no lower-case one
isupper(str) ==
  /\ \E i \in 1..Len(str) : str[i] = "A"
  /\ \A i \in 1..Len(str) : str[i] # "a"

\* line 94: the line is taken for a header or footer
is_caps_artifact(line) ==
  LET stripped == strip(line)
  IN /\ stripped # <<>>
     /\ isupper(stripped)
     /\ Len(stripped) < CAPS_LINE_CHARS
     /\ count_words(stripped, 1) <= CAPS_LINE_WORDS

\* re.sub(r"[ \t]{2,}", " ", text), from position i
RECURSIVE collapse_spaces(_, _)
collapse_spaces(str, i) ==
  IF i > Len(str) THEN <<>>
  ELSE IF run_length(str, i, {SP, TAB}) >= 2
       THEN <<SP>> \o collapse_spaces(str, i + run_length(str, i, {SP, TAB}))
  ELSE <<str[i]>> \o collapse_spaces(str, i + 1)

\* [l.strip() for l in lines]
strip_each(lines) == [i \in 1..Len(lines) |-> strip(lines[i])]

\* lines 78-103
clean_text(raw) ==
  LET t1 == replace_char(replace_crlf(raw), CR, <<NL>>)
      t2 == replace_char(t1, FF, <<NL, NL>>)
      t3 == join_hyphenated(t2)
      t4 == remove_page_numbers(t3, 1)
      t5 == collapse_newlines(t4, 1)
      t6 == join_lines(SelectSeq(split_lines(t5, 1, <<>>),
                                 LAMBDA line : ~is_caps_artifact(line)))
      t7 == collapse_spaces(t6, 1)
      t8 == join_lines(strip_each(split_lines(t7, 1, <<>>)))
  IN strip(t8)

RawTexts == UNION {[1..l -> RawChars] : l \in 0..MaxRaw}

InitClean ==
  /\ InitProgram
  /\ nchunks = [s \in SourceNames |-> 0]
  /\ db = <<>>
  /\ text \in RawTexts
  /\ result = <<>>
  /\ phase = "raw"

\* line 229: cleaned = clean_text(raw)
clean_apply ==
  /\ phase = "raw"
  /\ result' = clean_text(text)
  /\ phase' = "cleaned"
  /\ UNCHANGED text
  /\ UNCHANGED ivars

NextClean == clean_apply

SpecClean == InitClean /\ [][NextClean]_vars

\* ================================================================= claims
\* the run of ingest_source for s is in its batch loop
InRun(s) == cur = s /\ pc \in {"batch", "persist"}

\* ingest_source has just returned from a live run for s
Ended(s) ==
  /\ cur = s
  /\ pc = "main_loop"
  /\ summary[s].status = "done"

BatchStarts(n) == {i \in 0..(n - 1) : i % EMBED_BATCH_SIZE = 0}
BatchChunks(n, idx) == {batch_of(n, idx)[i] : i \in 1..Len(batch_of(n, idx))}

\* the chunks of s that have a row of this invocation in the store
Persisted(s) ==
  {db[i].content : i \in {j \in 1..Len(db) :
                            db[j].source = s /\ db[j].createdAt = clock}}

NoOldRows(s) ==
  \A i \in 1..Len(db) : db[i].source = s => db[i].createdAt = clock

TallyOf(rep, s) ==
  IF \E t \in rep.tally : t[1] = s
  THEN (CHOOSE t \in rep.tally : t[1] = s)[2]
  ELSE 0

\* C1: replace-by-source.  From the moment the batch loop of a live run for
\* S starts, no row of S older than the run is in the store (the delete
\* precedes every insert); when the run ends and every batch succeeded, the
\* store holds exactly len(chunks) rows for S, whatever it held before.
C1_ReplaceBySource ==
  \A s \in SourceNames :
    /\ (InRun(s) \/ Ended(s)) => NoOldRows(s)
    /\ (Ended(s) /\ env = {}) => db_count(db, s) = total

\* 2 rows before, 1 chunk: exactly 1 row afterwards
C1_Witness ==
  \E s \in SourceNames :
    /\ Ended(s) /\ env = {}
    /\ existing = 2 /\ total = 1
    /\ db_count(db, s) = 1

LiveDone(rep, s) ==
  /\ rep.status = "finished"
  /\ ~rep.dry
  /\ rep.summary[s].status = "done"

AllStored(rep, s) ==
  /\ rep.summary[s].stored = nchunks[s]
  /\ rep.summary[s].skipped = 0

C3_BatchAtomicity ==
  \A s \in SourceNames :
    Ended(s) =>
      \A b \in BatchStarts(total) :
        \/ BatchChunks(total, b) \cap Persisted(s) = {}
        \/ BatchChunks(total, b) \subseteq Persisted(s)

\* C4: a rejected insert or commit is handled like an embedding failure:
\* the batch is counted as skipped, stored keeps the value it had before
\* the batch, the loop goes on, and when the run has ended no chunk of a
\* batch reported with a store error is in the store.
C4_PersistenceFailure ==
  [][/\ out' = Append(out, "store_error")
          => /\ skipped' = skipped + Len(batch_of(total, batch_idx))
             /\ stored' = stored
             /\ pc' = "batch"
     /\ \A s \in SourceNames :
          Ended(s)' =>
            \A i \in 1..Len(out') :
              out'[i] = "store_error" =>
                BatchChunks(total', (i - 1) * EMBED_BATCH_SIZE)
                  \cap Persisted(s)' = {}]_vars

\* C5: when the embedding call raises for a batch of k chunks, skipped grows
\* by exactly k, stored, the store and the open transaction are untouched,
\* and the loop moves on to the next batch.
C5_EmbeddingFailure ==
  [][out' = Append(out, "embed_error")
       => /\ skipped' = skipped + Len(batch_of(total, batch_idx))
          /\ stored' = stored
          /\ db' = db
          /\ pending' = pending
          /\ pc' = "batch"
          /\ batch_idx' = batch_idx + EMBED_BATCH_SIZE]_vars

\* a full batch failed in the embedding call and the next batch was stored
C5_Witness ==
  /\ pc = "batch"
  /\ out = <<"embed_error", "ok">>
  /\ skipped = EMBED_BATCH_SIZE
  /\ stored = total - EMBED_BATCH_SIZE
  /\ stored > 0

EmbeddingNeverErrs == env \cap {"embed_error", "malformed"} = {}

InDryRun == dry_run /\ pc # "idle"

C7_PreviewTouchesNothing ==
  [][(InDryRun \/ InDryRun')
       => /\ db' = db
          /\ pending' = pending
          /\ touched' = {}]_vars

\* the second of two dry-run invocations has previewed every source over a
\* non-empty store
C7_Witness ==
  /\ pc = "main_loop" /\ todo = <<>> /\ dry_run /\ clock = 2
  /\ report.status = "finished" /\ report.dry
  /\ \A s \in SourceNames : summary[s].status = "preview"
  /\ \A s \in SourceNames : db_count(db, s) > 0 /\ nchunks[s] > 0
  /\ touched = {}

\* the vector the response reports for request index i
ReportedFor(response, i) ==
  response[CHOOSE p \in 1..Len(response) : response[p].index = i].embedding

\* C8: order preservation.  When the response to a batch of k chunks
\* carries one vector per request index 0..k-1, in any order, zipping the
\* batch with the result of embed_batch pairs the chunk at position i with
\* the vector reported for index i.
C8_OrderPreservation ==
  (phase = "embedded" /\ WellFormed(data, total))
    => LET batch == request_of(total)
           pairs == zip(batch, embeddings)
       IN /\ Len(pairs) = total
          /\ \A i \in 1..total :
               pairs[i] = <<batch[i], ReportedFor(data, i - 1)>>

\* a batch of 3 was answered in the order 2, 0, 1
C8_Witness ==
  /\ phase = "embedded"
  /\ total = 3 /\ Len(data) = 3
  /\ data[1].index = 2 /\ data[2].index = 0 /\ data[3].index = 1
  /\ embeddings = <<1, 2, 3>>

\* C9: no silent mismatch.  Every row written by a run carries the vector
\* reported for its chunk's request index, and a batch is reported as stored
\* only if its response was one vector per request index.
C9_NoSilentMismatch ==
  /\ \A i \in 1..Len(db) : db[i].createdAt > 0 => db[i].embedding = db[i].content
  /\ (pc = "batch" /\ out # <<>> /\ out[Len(out)] = "ok")
       => WellFormed(data, Len(batch_of(total, batch_idx - EMBED_BATCH_SIZE)))


\* C10: chunk size invariant.  Every chunk split_into_chunks returns is
\* non-empty and at least MIN_CHUNK_CHARS long, also when a paragraph
\* longer than CHUNK_TARGET_CHARS makes a chunk exceed the target.
C10_ChunkSize ==
  phase = "done" =>
    \A i \in 1..Len(result) :
      result[i] # <<>> /\ Len(result[i]) >= MIN_CHUNK_CHARS

\* the input has a paragraph longer than the target; of the two chunks it
\* yields, the one below the minimum is dropped and the one returned is
\* longer than the target
C10_Witness ==
  /\ phase = "done"
  /\ Len(collect_chunks(text)) = 2
  /\ Len(result) = 1
  /\ Len(result[1]) > CHUNK_TARGET_CHARS
  /\ \E i \in 1..Len(re_split(text, 1, <<>>)) :
       Len(strip(re_split(text, 1, <<>>)[i])) > CHUNK_TARGET_CHARS

\* ------------------------------------------------ overlap between chunks
IsPrefix(s, t) == Len(s) <= Len(t) /\ SubSeq(t, 1, Len(s)) = s

\* the suffix of c that starts at position p
Suffix(c, p) == SubSeq(c, p, Len(c))

\* a word of c starts at position p
WordStart(c, p) ==
  /\ c[p] \notin Whitespace
  /\ (p = 1 \/ c[p - 1] \in Whitespace)

\* the chunks closed inside the loop (line 130) and the buffer left when
\* the input ends (line 139)
ClosedChunks(str) ==
  chunk_loop(re_split(str, 1, <<>>), 1, [chunks |-> <<>>, current |-> <<>>]).chunks

FinalBuffer(str) ==
  strip(chunk_loop(re_split(str, 1, <<>>), 1,
                   [chunks |-> <<>>, current |-> <<>>]).current)

\* every chunk the loop builds, in order, before any is dropped for its size
BuiltChunks(str) ==
  ClosedChunks(str) \o (IF FinalBuffer(str) # <<>> THEN <<FinalBuffer(str)>>
                        ELSE <<>>)

\* c and d are chunks built one right after the other
ClosedAdjacent(str, c, d) ==
  \E j \in 1..(Len(BuiltChunks(str)) - 1) :
    BuiltChunks(str)[j] = c /\ BuiltChunks(str)[j + 1] = d

HasSpace(str) == \E i \in 1..Len(str) : str[i] = SP

Paragraphs(str) ==
  LET parts == re_split(str, 1, <<>>)
  IN {strip(parts[i]) : i \in 1..Len(parts)} \ {<<>>}

IsSuffix(s, t) ==
  Len(s) <= Len(t) /\ SubSeq(t, Len(t) - Len(s) + 1, Len(t)) = s

\* C17 as stated: if every paragraph of the input has length <=
\* CHUNK_TARGET_CHARS, every chunk returned by split_into_chunks has length
\* <= CHUNK_TARGET_CHARS (a chunk is longer only when a single paragraph
\* alone is longer).
C17_TargetBound_AsStated ==
  phase = "done" =>
    ((\A p \in Paragraphs(text) : Len(p) <= CHUNK_TARGET_CHARS)
       => \A i \in 1..Len(result) : Len(result[i]) <= CHUNK_TARGET_CHARS)

\* C17 amended: a returned chunk longer than CHUNK_TARGET_CHARS ends with one
\* paragraph p and is at most CHUNK_OVERLAP_CHARS + 2 longer than p (p alone,
\* or p after an overlap tail and a paragraph break); and if every paragraph
\* has length <= CHUNK_TARGET_CHARS, the first chunk the loop builds, which
\* has no overlap tail, has length <= CHUNK_TARGET_CHARS.
C17_TargetBound ==
  phase = "done" =>
    /\ \A i \in 1..Len(result) :
         Len(result[i]) > CHUNK_TARGET_CHARS =>
           \E p \in Paragraphs(text) :
             /\ IsSuffix(p, result[i])
             /\ Len(result[i]) <= Len(p) + CHUNK_OVERLAP_CHARS + 2
    /\ (\A p \in Paragraphs(text) : Len(p) <= CHUNK_TARGET_CHARS)
         => (collect_chunks(text) # <<>>
               => Len(collect_chunks(text)[1]) <= CHUNK_TARGET_CHARS)

\* no paragraph is longer than the target, yet the second chunk, an overlap
\* tail of CHUNK_OVERLAP_CHARS characters and a paragraph, is
C17_Witness ==
  /\ phase = "done"
  /\ \A p \in Paragraphs(text) : Len(p) <= CHUNK_TARGET_CHARS
  /\ Len(result) = 2
  /\ Len(result[1]) <= CHUNK_TARGET_CHARS
  /\ Len(result[2]) > CHUNK_TARGET_CHARS
  /\ Len(overlap_of(result[1])) = CHUNK_OVERLAP_CHARS

\* ------------------------------------------------- what the filter drops
\* p occurs in c as a contiguous piece
Contains(c, p) ==
  \E k \in 1..(Len(c) - Len(p) + 1) : SubSeq(c, k, k + Len(p) - 1) = p

InSomeChunk(piece) == \E i \in 1..Len(result) : Contains(result[i], piece)

\* C18: every non-empty paragraph appears whole in at least one returned
\* chunk, except the paragraphs of a final buffer shorter than
\* MIN_CHUNK_CHARS; and the text of every chunk closed before the end of
\* the input is in the returned chunks (the filter drops none of them with
\* loss of text).
C18_ParagraphsKept ==
  phase = "done" =>
    /\ \A p \in Paragraphs(text) :
         \/ InSomeChunk(p)
         \/ /\ Len(FinalBuffer(text)) < MIN_CHUNK_CHARS
            /\ Contains(FinalBuffer(text), p)
    /\ \A j \in 1..Len(ClosedChunks(text)) :
         InSomeChunk(ClosedChunks(text)[j])

\* ---------------------------------------------------------- normalisation
\* C12: normalisation idempotence.  Cleaning a cleaned text gives the same
\* text: clean_text(clean_text(x)) = clean_text(x) for every raw string x.
C12_CleanIdempotent ==
  phase = "cleaned" => clean_text(result) = result

LinesOf(str) == {split_lines(str, 1, <<>>)[i] :
                   i \in 1..Len(split_lines(str, 1, <<>>))}

NoCarriageReturn(str) == \A i \in 1..Len(str) : str[i] # CR

NoPageNumberLine(str) ==
  \A line \in LinesOf(str) :
    ~(Len(line) \in 1..4 /\ \A i \in 1..Len(line) : line[i] \in Digit)

NoBlankLineRun(str) ==
  \A i \in 1..Len(str) : run_length(str, i, {NL}) <= 2

NoCapsArtifact(str) == \A line \in LinesOf(str) : ~is_caps_artifact(line)

\* C13: the output of clean_text has no carriage return, no line of only
\* 1-4 digits, no run of more than 2 consecutive newlines and no short
\* all-caps line.
C13_NormalizedText ==
  phase = "cleaned" =>
    /\ NoCarriageReturn(result)
    /\ NoPageNumberLine(result)
    /\ NoBlankLineRun(result)
    /\ NoCapsArtifact(result)

\* ------------------------------------------------------ sources and runs
\* the rows of source s, in table order
RowsOf(table, s) == SelectSeq(table, LAMBDA r : r.source = s)

\* this step finds the document of s missing
MissingStep(s) ==
  summary[s].status # "missing" /\ summary'[s].status = "missing"

\* C14: when the document of a source cannot be found, the source is
\* skipped: the step changes neither the store nor the open transaction and
\* uses neither the store nor the embedding service, the sources queued
\* after it stay queued and the loop goes on; and for the rest of the
\* invocation the rows of the skipped source stay as they were.
C14_MissingResource ==
  [][\A s \in SourceNames :
       /\ MissingStep(s)
            => /\ Head(todo) = s
               /\ todo' = Tail(todo)
               /\ pc' = "main_loop"
               /\ db' = db
               /\ pending' = pending
               /\ touched' = touched
       /\ (summary[s].status = "missing" /\ summary'[s].status = "missing")
            => RowsOf(db', s) = RowsOf(db, s)]_vars

\* the document of the first source was missing; its rows are still there
\* and the second source has been ingested completely
C14_Witness ==
  /\ pc = "main_loop" /\ todo = <<>> /\ ~dry_run
  /\ summary[PDF_SOURCES[1]].status = "missing"
  /\ db_count(db, PDF_SOURCES[1]) > 0
  /\ summary[PDF_SOURCES[2]].status = "done"
  /\ cur = PDF_SOURCES[2]
  /\ total > 0 /\ stored = total
  /\ db_count(db, PDF_SOURCES[2]) = total

\* main_start ended the invocation before its loop
ConfigAbort == pc = "idle" /\ pc' = "idle" /\ clock' = clock + 1

\* the environment makes this step fail
FaultStep == nfaults' > nfaults

\* the process ends in this step
RunEnds == pc # "idle" /\ pc' = "idle"

\* an invocation stopped by its configuration mutates nothing and
\* processes no source
ConfigAbortIsClean ==
  ConfigAbort =>
    /\ report'.status \in {"unknown_source", "no_api_key"}
    /\ \A s \in SourceNames : report'.summary[s].status = "none"
    /\ db' = db
    /\ touched' = {}

NumBatches(n) == (n + EMBED_BATCH_SIZE - 1) \div EMBED_BATCH_SIZE

\* chunks[idx : idx + EMBED_BATCH_SIZE] of a document of n chunks
Slice(n, idx) ==
  [i \in 1..Min(EMBED_BATCH_SIZE, n - idx) |-> idx + i]

\* the batches of a document of n chunks, from the k-th on, one after the
\* other
RECURSIVE ConcatBatches(_, _)
ConcatBatches(n, k) ==
  IF k >= NumBatches(n) THEN <<>>
  ELSE batch_of(n, k * EMBED_BATCH_SIZE) \o ConcatBatches(n, k + 1)

\* this step sends a batch to the embedding service
SubmitStep ==
  /\ pc = "batch"
  /\ pc' = "persist" \/ out' = Append(out, "embed_error")

\* what every step of the batch loop keeps to
BatchDiscipline ==
  /\ SubmitStep
       => /\ batch_idx = EMBED_BATCH_SIZE * Len(out)
          /\ batch_idx < total
          /\ batch_of(total, batch_idx) = Slice(total, batch_idx)
          /\ Len(batch_of(total, batch_idx)) \in 1..EMBED_BATCH_SIZE
  /\ Len(out') > Len(out)
       => /\ Len(out') = Len(out) + 1
          /\ batch_idx' = batch_idx + EMBED_BATCH_SIZE
  /\ (pc \in {"batch", "persist"} /\ pc' = "main_loop")
       => /\ Len(out) = NumBatches(total)
          /\ ConcatBatches(total, 0) = [i \in 1..total |-> i]

\* C16: the batches of a live run are the consecutive slices of the chunk
\* list (sizes 1..B, ceil(n/B) of them, together the whole list in order);
\* the batch sent is always the one after the batches handled so far, so
\* each is sent once, in document order, and none is sent again after a
\* failure; and a run that has entered the batch loop always leaves it,
\* with every batch handled, whatever fails.
C16_Batches ==
  /\ [][BatchDiscipline]_vars
  /\ (pc \in {"batch", "persist"})
       ~> (pc = "main_loop" /\ Len(out) = NumBatches(total))

\* a run of 3 chunks has ended: its first batch failed in the embedding
\* call and its second, partial batch was stored
C16_Witness ==
  \E s \in SourceNames :
    /\ Ended(s)
    /\ total = EMBED_BATCH_SIZE + 1
    /\ out = <<"embed_error", "ok">>
    /\ batch_idx = 2 * EMBED_BATCH_SIZE
    /\ skipped = EMBED_BATCH_SIZE /\ stored = 1

\* ---------------------------------------------------------------- counters
\* C19: counter consistency.  When a live run over n chunks has ended,
\* whatever failed during it, stored + skipped = n and the reported stored
\* count is the number of rows of the source in the store.
C19_CounterConsistency ==
  \A s \in SourceNames :
    Ended(s) =>
      /\ summary[s].stored + summary[s].skipped = total
      /\ summary[s].stored = db_count(db, s)

\* ------------------------------------------------------------------ frame
\* C20: a live run for a source S deletes and inserts only rows of S: no
\* step of the run, from the pre-run delete to the close, changes the rows
\* of another source, and the open transaction holds rows of S only,
\* whatever fails during the run.
C20_Frame ==
  [][\A s \in SourceNames :
       (InRun(s) \/ InRun(s)')
         => /\ \A s2 \in SourceNames \ {s} : RowsOf(db', s2) = RowsOf(db, s2)
            /\ \A i \in 1..Len(pending') : pending'[i].source = s]_vars

\* a run that replaced the rows of its source and then lost a batch has
\* ended, and the rows of the other source are in the store
C20_Witness ==
  \E s \in SourceNames :
    /\ Ended(s)
    /\ existing > 0
    /\ env # {}
    /\ stored > 0 /\ skipped > 0
    /\ \E s2 \in SourceNames \ {s} :
         /\ db_count(db, s2) > 0
         /\ \A i \in 1..Len(db) : db[i].source = s2 => db[i].createdAt = 0

====
